---- MODULE Spec2Model ----
(***************************************************************************)
(* Crowdfunding program: one Campaign account, its Contribution accounts   *)
(* and the lamport balances the instruction handlers move between the      *)
(* donors, the campaign account (escrow) and the campaign authority.       *)
(* Every instruction is one atomic transaction: a handler that returns an  *)
(* error leaves every account as it was.                                   *)
(***************************************************************************)
EXTENDS Integers, FiniteSets, Sequences, TLC

\* ---- bounds of the model ----
MaxTime == 4
MaxGoal == 3
MaxAmount == 3
InitBalance == 2

\* the donors (signers of donate); two are enough for one donor's refund to be
\* paid out of another donor's escrowed lamports
Donors == {"donor1", "donor2"}
NoDonor == "none"
Times == 0..MaxTime
Goals == 0..MaxGoal
Amounts == 0..MaxAmount
\* start_at and end_at offered to create_campaign; extend_campaign moves end_at on
StartTimes == 0..1
EndTimes == 0..2

\* CampaignStatus variants
Active == "Active"
Cancelled == "Cancelled"
Closed == "Closed"

\* lamport holders: the donors, the campaign account and its authority
Escrow == "campaign"
Authority == "authority"
Holders == Donors \cup {Escrow, Authority}

VARIABLES
    initialized,    \* the Campaign account has been created
    campaign,       \* the Campaign account's fields
    contribution,   \* donor -> Contribution account (exists, amount)
    lamports,       \* holder -> balance
    now,            \* Clock::get()?.unix_timestamp
    result,         \* outcome of the last instruction
    refunded        \* history: some cancel_donation/refund_donations returned Ok

vars == <<initialized, campaign, contribution, lamports, now, result, refunded>>
accounts == <<initialized, campaign, contribution, lamports>>

Min(a, b) == IF a <= b THEN a ELSE b

\* the outcome of one instruction
Outcome(op, err, d, req, moved) ==
    [op |-> op, err |-> err, donor |-> d, requested |-> req, moved |-> moved]

\* require!(cond, err) failing, or a failed transfer: the transaction aborts
FailWith(op, err, d, req) ==
    /\ result' = Outcome(op, err, d, req, 0)
    /\ UNCHANGED <<initialized, campaign, contribution, lamports, now, refunded>>

Fail(op, err, d) == FailWith(op, err, d, 0)

\* system_program::transfer / direct lamport debit and credit.  lamports[Escrow]
\* counts the campaign account's lamports above its rent-exempt reserve, i.e.
\* the donated lamports it still holds.  A debit larger than that aborts the
\* transaction (the u64 subtraction panics or wraps into an unbalanced
\* instruction, or the account drops below rent exemption): the handlers
\* report it as "LamportUnderflow" and nothing changes.
Transfer(from, to, amount) ==
    [lamports EXCEPT ![from] = @ - amount, ![to] = @ + amount]

Init ==
    /\ initialized = FALSE
    /\ campaign = [goal |-> 0, total_donated |-> 0, donation_completed |-> FALSE,
                   claimed |-> FALSE, start_at |-> 0, end_at |-> 0, status |-> Active,
                   authority |-> NoDonor]
    /\ contribution = [d \in Donors |-> [exists |-> FALSE, amount |-> 0]]
    /\ lamports = [h \in Holders |-> IF h \in Donors THEN InitBalance ELSE 0]
    /\ now = 0
    /\ result = Outcome("none", "Ok", NoDonor, 0, 0)
    /\ refunded = FALSE

\* the time source: non-decreasing
Tick ==
    /\ now < MaxTime
    /\ now' = now + 1
    /\ UNCHANGED <<initialized, campaign, contribution, lamports, result, refunded>>

\* mutant of create_window_ok: an empty window is accepted
create_window_ok_weak(start_at, end_at) == end_at >= start_at

\* end_at > start_at
create_window_ok(start_at, end_at) == end_at > start_at

create_campaign(goal, start_at, end_at) ==
    /\ ~initialized
    /\ IF ~(start_at >= now) THEN Fail("create", "StartTimeEarly", NoDonor)
       ELSE IF ~create_window_ok(start_at, end_at) THEN Fail("create", "EndTimeSmall", NoDonor)
       ELSE IF ~(goal > 0) THEN Fail("create", "GoalZero", NoDonor)
       ELSE /\ initialized' = TRUE
            /\ campaign' = [goal |-> goal, total_donated |-> 0,
                            donation_completed |-> FALSE, claimed |-> FALSE,
                            start_at |-> start_at, end_at |-> end_at,
                            status |-> Active, authority |-> Authority]
            /\ result' = Outcome("create", "Ok", NoDonor, 0, 0)
            /\ UNCHANGED <<contribution, lamports, now, refunded>>

\* mutant of cancel_not_started: the start instant itself still counts as "before"
cancel_not_started_inclusive(c, t) == t <= c.start_at

\* current_timestamp < campaign.start_at
cancel_not_started(c, t) == t < c.start_at

cancel_campaign ==
    /\ initialized
    /\ IF ~cancel_not_started(campaign, now) THEN Fail("cancel", "CampaignStarted", NoDonor)
       ELSE /\ campaign' = [campaign EXCEPT !.status = Cancelled]
            /\ result' = Outcome("cancel", "Ok", NoDonor, 0, 0)
            /\ UNCHANGED <<initialized, contribution, lamports, now, refunded>>

\* goal.checked_sub(total_donated).unwrap_or(0)
remaining_amount(c) ==
    IF c.goal >= c.total_donated THEN c.goal - c.total_donated ELSE 0

\* mutant of actual_donation: the requested amount is taken uncapped
actual_donation_uncapped(c, amount) == amount

\* amount.min(remaining_amount)
actual_donation(c, amount) == Min(amount, remaining_amount(c))

\* mutant of goal_met: the goal counts as met only once it is exceeded
goal_met_strict(c, total) == total > c.goal

\* campaign.total_donated >= campaign.goal
goal_met(c, total) == total >= c.goal

\* the Contribution account of donor d exists (created on d's first donation);
\* cancel_donation and refund_donations cannot load a Contribution that was
\* never created
ContributionExists(d) == contribution[d].exists

\* mutant of donate_not_over: the end instant itself is already too late
donate_not_over_strict(c, t) == t < c.end_at

\* current_timestamp <= campaign.end_at
donate_not_over(c, t) == t <= c.end_at

\* mutant of donate: the records are updated before the transfer is attempted
\* and stay updated when it fails
donate_books_before_transfer(d, amount) ==
    /\ initialized
    /\ IF ~(now >= campaign.start_at) THEN FailWith("donate", "CampaignNotStarted", d, amount)
       ELSE IF ~donate_not_over(campaign, now) THEN FailWith("donate", "CampaignOver", d, amount)
       ELSE IF campaign.donation_completed THEN FailWith("donate", "DonationCompleted", d, amount)
       ELSE IF ~(amount > 0) THEN FailWith("donate", "AmountZero", d, amount)
       ELSE LET actual == actual_donation(campaign, amount)
                total == campaign.total_donated + actual
            IN /\ campaign' = [campaign EXCEPT
                       !.total_donated = total,
                       !.donation_completed = IF goal_met(campaign, total) THEN TRUE ELSE @]
               /\ contribution' = [contribution EXCEPT
                       ![d] = [exists |-> TRUE, amount |-> @.amount + actual]]
               /\ IF lamports[d] < actual
                  THEN /\ result' = Outcome("donate", "InsufficientFunds", d, amount, 0)
                       /\ UNCHANGED lamports
                  ELSE /\ lamports' = Transfer(d, Escrow, actual)
                       /\ result' = Outcome("donate", "Ok", d, amount, actual)
               /\ UNCHANGED <<initialized, now, refunded>>

donate(d, amount) ==
    /\ initialized
    /\ IF ~(now >= campaign.start_at) THEN FailWith("donate", "CampaignNotStarted", d, amount)
       ELSE IF ~donate_not_over(campaign, now) THEN FailWith("donate", "CampaignOver", d, amount)
       ELSE IF campaign.donation_completed THEN FailWith("donate", "DonationCompleted", d, amount)
       ELSE IF ~(amount > 0) THEN FailWith("donate", "AmountZero", d, amount)
       ELSE LET actual == actual_donation(campaign, amount)
                total == campaign.total_donated + actual
            IN IF lamports[d] < actual
               THEN FailWith("donate", "InsufficientFunds", d, amount)
               ELSE /\ lamports' = Transfer(d, Escrow, actual)
                    /\ campaign' = [campaign EXCEPT
                           !.total_donated = total,
                           !.donation_completed = IF goal_met(campaign, total) THEN TRUE ELSE @]
                    /\ contribution' = [contribution EXCEPT
                           ![d] = [exists |-> TRUE, amount |-> @.amount + actual]]
                    /\ result' = Outcome("donate", "Ok", d, amount, actual)
                    /\ UNCHANGED <<initialized, now, refunded>>

\* what cancel_donation does for donor d in the current state: the error it
\* returns and the accounts it leaves
cancel_donation_effect(d) ==
    LET unchanged(err) == [err |-> err, moved |-> 0, campaign |-> campaign,
                           contribution |-> contribution, lamports |-> lamports]
    IN IF ~(now > campaign.end_at) THEN unchanged("CampaignNotOver")
       ELSE IF campaign.donation_completed THEN unchanged("DonationCompleted")
       ELSE LET amount == contribution[d].amount
            IN IF lamports[Escrow] < amount THEN unchanged("LamportUnderflow")
               ELSE [err |-> "Ok", moved |-> amount, campaign |-> campaign,
                     contribution |-> contribution,
                     lamports |-> Transfer(Escrow, d, amount)]

cancel_donation(d) ==
    /\ initialized
    /\ ContributionExists(d)
    /\ LET e == cancel_donation_effect(d)
       IN IF e.err # "Ok" THEN Fail("cancel_donation", e.err, d)
          ELSE /\ lamports' = e.lamports
               /\ campaign' = e.campaign
               /\ contribution' = e.contribution
               /\ result' = Outcome("cancel_donation", "Ok", d, 0, e.moved)
               /\ refunded' = TRUE
               /\ UNCHANGED <<initialized, now>>

\* mutant of claim_goal_reached: claim is not gated on the goal
claim_goal_reached_ungated(c) == TRUE

\* campaign.donation_completed
claim_goal_reached(c) == c.donation_completed

\* mutant of claim_not_claimed: the latch is not consulted
claim_not_claimed_unlatched(c) == TRUE

\* !campaign.claimed
claim_not_claimed(c) == ~c.claimed

claim_donations ==
    /\ initialized
    /\ IF ~(now > campaign.end_at) THEN Fail("claim", "CampaignNotOver", NoDonor)
       ELSE IF ~claim_goal_reached(campaign) THEN Fail("claim", "DonationNotCompleted", NoDonor)
       ELSE IF ~claim_not_claimed(campaign) THEN Fail("claim", "DonationsClaimed", NoDonor)
       ELSE LET amount == campaign.total_donated
            IN IF lamports[Escrow] < amount
               THEN Fail("claim", "LamportUnderflow", NoDonor)
               ELSE /\ lamports' = Transfer(Escrow, Authority, amount)
                    /\ campaign' = [campaign EXCEPT !.claimed = TRUE]
                    /\ result' = Outcome("claim", "Ok", NoDonor, 0, amount)
                    /\ UNCHANGED <<initialized, contribution, now, refunded>>

\* mutant of refund_campaign_over: the end instant itself counts as over
refund_campaign_over_inclusive(c, t) == t >= c.end_at

\* current_timestamp > campaign.end_at
refund_campaign_over(c, t) == t > c.end_at

\* mutant of refund_goal_not_met: a completed campaign is refundable too
refund_goal_not_met_ungated(c) == TRUE

\* !campaign.donation_completed
refund_goal_not_met(c) == ~c.donation_completed

\* what refund_donations does for donor d in the current state: the error it
\* returns and the accounts it leaves
refund_donations_effect(d) ==
    LET unchanged(err) == [err |-> err, moved |-> 0, campaign |-> campaign,
                           contribution |-> contribution, lamports |-> lamports]
    IN IF ~refund_campaign_over(campaign, now) THEN unchanged("CampaignNotOver")
       ELSE IF ~refund_goal_not_met(campaign) THEN unchanged("DonationCompleted")
       ELSE LET amount == contribution[d].amount
            IN IF lamports[Escrow] < amount THEN unchanged("LamportUnderflow")
               ELSE [err |-> "Ok", moved |-> amount, campaign |-> campaign,
                     contribution |-> contribution,
                     lamports |-> Transfer(Escrow, d, amount)]

refund_donations(d) ==
    /\ initialized
    /\ ContributionExists(d)
    /\ LET e == refund_donations_effect(d)
       IN IF e.err # "Ok" THEN Fail("refund_donations", e.err, d)
          ELSE /\ lamports' = e.lamports
               /\ campaign' = e.campaign
               /\ contribution' = e.contribution
               /\ result' = Outcome("refund_donations", "Ok", d, 0, e.moved)
               /\ refunded' = TRUE
               /\ UNCHANGED <<initialized, now>>

\* mutant of extend_lengthens: an unchanged end time is accepted
extend_lengthens_weak(c, new_end_at) == new_end_at >= c.end_at

\* new_end_at > campaign.end_at
extend_lengthens(c, new_end_at) == new_end_at > c.end_at

extend_campaign(new_end_at) ==
    /\ initialized
    /\ IF ~extend_lengthens(campaign, new_end_at)
       THEN FailWith("extend", "EndTimeSmall", NoDonor, new_end_at)
       ELSE IF ~(new_end_at > now)
       THEN FailWith("extend", "StartTimeEarly", NoDonor, new_end_at)
       ELSE /\ campaign' = [campaign EXCEPT !.end_at = new_end_at]
            /\ result' = Outcome("extend", "Ok", NoDonor, new_end_at, 0)
            /\ UNCHANGED <<initialized, contribution, lamports, now, refunded>>

close_campaign ==
    /\ initialized
    /\ IF ~(now > campaign.end_at) THEN Fail("close", "CampaignNotOver", NoDonor)
       ELSE /\ campaign' = [campaign EXCEPT !.status = Closed]
            /\ result' = Outcome("close", "Ok", NoDonor, 0, 0)
            /\ UNCHANGED <<initialized, contribution, lamports, now, refunded>>

Next ==
    \/ Tick
    \/ \E g \in Goals, s \in StartTimes, e \in EndTimes : create_campaign(g, s, e)
    \/ cancel_campaign
    \/ \E d \in Donors, a \in Amounts : donate(d, a)
    \/ \E d \in Donors : cancel_donation(d)
    \/ claim_donations
    \/ \E d \in Donors : refund_donations(d)
    \/ \E t \in Times : extend_campaign(t)
    \/ close_campaign

Spec == Init /\ [][Next]_vars

TypeOK ==
    /\ initialized \in BOOLEAN
    /\ now \in Times
    /\ \A h \in Holders : lamports[h] >= 0
    /\ \A d \in Donors : contribution[d].exists => contribution[d].amount >= 1

RefundOps == {"cancel_donation", "refund_donations"}

\* this step is a call of instruction op (the clock stands still during a call)
Called(op) == now' = now /\ result'.op = op
\* ... that returned Ok, or an error
Succeeded(op) == Called(op) /\ result'.err = "Ok"
Failed(op) == Called(op) /\ result'.err # "Ok"

\* ---- C1 ----
\* C1: total_donated never exceeds goal, and every successful donate(amount)
\* accepts exactly min(amount, goal - total_donated before): that much leaves
\* the donor, enters the campaign account, and is added to total_donated and
\* to the donor's contribution.amount.
C1_DonateAcceptsCapped ==
    /\ [](initialized => campaign.total_donated <= campaign.goal)
    /\ [][Succeeded("donate") =>
            LET d == result'.donor
                accepted == Min(result'.requested,
                                campaign.goal - campaign.total_donated)
            IN /\ lamports'[d] = lamports[d] - accepted
               /\ lamports'[Escrow] = lamports[Escrow] + accepted
               /\ \A h \in Holders \ {d, Escrow} : lamports'[h] = lamports[h]
               /\ campaign'.total_donated = campaign.total_donated + accepted
               /\ contribution'[d].amount = contribution[d].amount + accepted
               /\ \A o \in Donors \ {d} : contribution'[o] = contribution[o]
               /\ result'.moved = accepted]_vars

\* a donation that offered more than the remaining goal was accepted, capped
C1_Witness ==
    /\ result.op = "donate" /\ result.err = "Ok"
    /\ result.moved < result.requested
    /\ campaign.total_donated = campaign.goal

\* ---- C2 ----
\* C2: after the window has ended without the goal being met, the second of
\* two consecutive refund calls on the same Contribution is rejected and moves
\* no lamports (the rejection is named NothingToRefund, a kind errors.rs does
\* not define: any rejection is accepted here).
C2_SecondRefundRejected ==
    [][( /\ result.op \in RefundOps /\ result.err = "Ok"
         /\ now > campaign.end_at /\ ~campaign.donation_completed
         /\ now' = now /\ result'.op \in RefundOps
         /\ result'.donor = result.donor )
       => (result'.err # "Ok" /\ lamports' = lamports)]_vars

\* ---- C3 ----
\* C3 (as stated): claimed never reverts, and every claim attempted while
\* claimed is already true fails with DonationsClaimed and moves no lamports.
C3_SecondClaimAlwaysAlreadyClaimed ==
    /\ [][campaign.claimed => campaign'.claimed]_vars
    /\ [][(Called("claim") /\ campaign.claimed) =>
            (result'.err = "DonationsClaimed" /\ lamports' = lamports)]_vars

\* C3 (amended): claimed never reverts, and every claim attempted while claimed
\* is already true fails and moves no lamports: with DonationsClaimed when
\* now > end_at, with CampaignNotOver when an extension has put end_at at or
\* after now.
C3_SecondClaimFails ==
    /\ [][campaign.claimed => campaign'.claimed]_vars
    /\ [][(Called("claim") /\ campaign.claimed) =>
            /\ result'.err = IF now > campaign.end_at THEN "DonationsClaimed"
                             ELSE "CampaignNotOver"
            /\ accounts' = accounts]_vars

\* a claim was attempted on an already claimed campaign and rejected by the latch
C3_Witness ==
    /\ campaign.claimed
    /\ result.op = "claim" /\ result.err = "DonationsClaimed"

RECURSIVE SumAmounts(_)
\* the sum of contribution.amount over the donors in S
SumAmounts(S) ==
    IF S = {} THEN 0
    ELSE LET d == CHOOSE x \in S : TRUE
         IN contribution[d].amount + SumAmounts(S \ {d})

\* C5: the contributions' amounts add up to the donated lamports the campaign
\* account still holds, and, before any claim or refund, to total_donated.
C5_ContributionsMatchEscrow ==
    initialized =>
        /\ SumAmounts(Donors) = lamports[Escrow]
        /\ (~refunded /\ ~campaign.claimed) =>
               SumAmounts(Donors) = campaign.total_donated

\* ---- C6 ----
\* C6: donation_completed equals (total_donated >= goal) in every state, never
\* goes back to false, and turns true in the very donate that first brings
\* total_donated up to goal.
C6_CompletedIffGoalMet ==
    /\ [](initialized =>
            (campaign.donation_completed = (campaign.total_donated >= campaign.goal)))
    /\ [][campaign.donation_completed => campaign'.donation_completed]_vars
    /\ [][(~campaign.donation_completed /\ campaign'.donation_completed) =>
            /\ Succeeded("donate")
            /\ campaign.total_donated < campaign.goal
            /\ campaign'.total_donated >= campaign'.goal]_vars

\* the donation that completed the goal has just been accepted
C6_Witness ==
    /\ campaign.donation_completed
    /\ result.op = "donate" /\ result.err = "Ok"

\* ---- C7 ----
\* C7: cancel_campaign succeeds exactly when now < start_at, and then only
\* sets status to Cancelled; at or after start_at it fails with
\* CampaignStarted and changes no account, whatever the campaign's state.
C7_CancelOnlyBeforeStart ==
    [][Called("cancel") =>
         IF now < campaign.start_at
         THEN /\ result'.err = "Ok"
              /\ campaign' = [campaign EXCEPT !.status = Cancelled]
              /\ UNCHANGED <<initialized, contribution, lamports>>
         ELSE /\ result'.err = "CampaignStarted"
              /\ accounts' = accounts]_vars

\* a cancel was rejected on a campaign that had already met its goal
C7_Witness ==
    /\ result.op = "cancel" /\ result.err = "CampaignStarted"
    /\ campaign.donation_completed

\* ---- C8 ----
\* C8: status starts Active, becomes Cancelled only while now < start_at and
\* Closed only while now > end_at, and once Cancelled or Closed it never
\* changes again.
C8_StatusTerminal ==
    /\ [][Succeeded("create") => campaign'.status = Active]_vars
    /\ [][(campaign.status # Cancelled /\ campaign'.status = Cancelled) =>
            now < campaign.start_at]_vars
    /\ [][(campaign.status # Closed /\ campaign'.status = Closed) =>
            now > campaign.end_at]_vars
    /\ [][(initialized /\ campaign.status \in {Cancelled, Closed}) =>
            campaign'.status = campaign.status]_vars

\* ---- C9 ----
\* C9: extend_campaign(new_end_at) fails with EndTimeSmall if new_end_at <=
\* end_at, else with StartTimeEarly if new_end_at <= now, else sets end_at to
\* new_end_at and nothing else; end_at never decreases, only a successful
\* extend changes it, and end_at > start_at in every state.
C9_ExtendOnlyLengthens ==
    /\ [][Called("extend") =>
            LET t == result'.requested
            IN IF t <= campaign.end_at
               THEN result'.err = "EndTimeSmall" /\ accounts' = accounts
               ELSE IF t <= now
               THEN result'.err = "StartTimeEarly" /\ accounts' = accounts
               ELSE /\ result'.err = "Ok"
                    /\ campaign' = [campaign EXCEPT !.end_at = t]
                    /\ UNCHANGED <<initialized, contribution, lamports>>]_vars
    /\ [][initialized => campaign'.end_at >= campaign.end_at]_vars
    /\ [][(initialized /\ campaign'.end_at # campaign.end_at) =>
            Succeeded("extend")]_vars
    /\ [](initialized => campaign.end_at > campaign.start_at)

\* an extension past the old end but not past the clock was rejected
C9_Witness ==
    /\ result.op = "extend" /\ result.err = "StartTimeEarly"
    /\ result.requested > campaign.end_at

\* ---- C10 ----
\* C10: an instruction that returns an error (a failed precondition, or
\* donate's failed transfer) leaves the Campaign, every Contribution and every
\* lamport balance exactly as they were.
C10_FailureChangesNothing ==
    [][(now' = now /\ result'.err # "Ok") => accounts' = accounts]_vars

\* a donation failed in the transfer, after every precondition had passed
C10_Witness ==
    /\ result.op = "donate" /\ result.err = "InsufficientFunds"

\* ---- C11 ----
\* C11: donate reports the first failing precondition in the order
\* CampaignNotStarted (now < start_at), CampaignOver (now > end_at),
\* DonationCompleted, AmountZero; with all four passed it succeeds exactly when
\* the donor can pay the accepted amount; total_donated changes only in a
\* successful donate, which happens only inside [start_at, end_at].
C11_DonateChecksInOrder ==
    /\ [][Called("donate") =>
            LET d == result'.donor
                amount == result'.requested
            IN result'.err =
                 IF now < campaign.start_at THEN "CampaignNotStarted"
                 ELSE IF now > campaign.end_at THEN "CampaignOver"
                 ELSE IF campaign.donation_completed THEN "DonationCompleted"
                 ELSE IF amount = 0 THEN "AmountZero"
                 ELSE IF lamports[d] < Min(amount, campaign.goal - campaign.total_donated)
                      THEN "InsufficientFunds"
                 ELSE "Ok"]_vars
    /\ [][(initialized /\ campaign'.total_donated # campaign.total_donated) =>
            /\ Succeeded("donate")
            /\ campaign.start_at <= now /\ now <= campaign.end_at]_vars

\* a zero-amount donation to a completed campaign was rejected for the
\* completed goal, the earlier of the two checks
C11_Witness ==
    /\ result.op = "donate" /\ result.err = "DonationCompleted"
    /\ result.requested = 0
    /\ now <= campaign.end_at

\* ---- C12 ----
\* C12: from any state and for any donor with a Contribution, cancel_donation
\* and refund_donations return the same error or both succeed, and leave the
\* same campaign, contributions and lamport balances.
C12_CancelEqualsRefund ==
    \A d \in Donors :
        (initialized /\ ContributionExists(d)) =>
            cancel_donation_effect(d) = refund_donations_effect(d)

\* a state in which both calls would pay a donor back
C12_Witness ==
    /\ initialized
    /\ \E d \in Donors :
          /\ ContributionExists(d)
          /\ cancel_donation_effect(d).err = "Ok"
          /\ refund_donations_effect(d).err = "Ok"
          /\ refund_donations_effect(d).moved > 0

\* ---- C13 ----
\* C13: cancel_donation and refund_donations fail with CampaignNotOver whenever
\* now <= end_at, otherwise with DonationCompleted whenever the goal has been
\* met, changing nothing; so a refund pays out only after the window has ended
\* and only on a campaign that has not met its goal.
C13_RefundOnlyAfterFailedWindow ==
    /\ [][(now' = now /\ result'.op \in RefundOps) =>
            /\ (now <= campaign.end_at) =>
                  (result'.err = "CampaignNotOver" /\ accounts' = accounts)
            /\ (now > campaign.end_at /\ campaign.donation_completed) =>
                  (result'.err = "DonationCompleted" /\ accounts' = accounts)]_vars
    /\ [][(\E d \in Donors : lamports'[d] > lamports[d]) =>
            (now > campaign.end_at /\ ~campaign.donation_completed)]_vars

\* a refund was asked for after the window of a completed campaign and rejected
C13_Witness ==
    /\ result.op \in RefundOps /\ result.err = "DonationCompleted"
    /\ now > campaign.end_at

\* ---- C14 ----
\* C14: a successful cancel_donation or refund_donations pays the donor exactly
\* the contribution's amount out of the campaign account and leaves
\* contribution.amount at 0; nothing else ever decreases a contribution.
C14_RefundConsumesContribution ==
    /\ [][(now' = now /\ result'.op \in RefundOps /\ result'.err = "Ok") =>
            LET d == result'.donor
            IN /\ result'.moved = contribution[d].amount
               /\ lamports' = Transfer(Escrow, d, contribution[d].amount)
               /\ contribution'[d].amount = 0]_vars
    /\ [][\A d \in Donors :
            contribution'[d].amount < contribution[d].amount =>
                (now' = now /\ result'.op \in RefundOps /\ result'.donor = d)]_vars

\* ---- C15 ----
\* C15: claim_donations fails with CampaignNotOver if now <= end_at, else with
\* DonationNotCompleted if the goal is not met, else with DonationsClaimed if
\* already claimed; otherwise it succeeds, moves exactly total_donated from the
\* campaign account to the authority, sets claimed and changes nothing else.
C15_ClaimContract ==
    [][Called("claim") =>
         IF now <= campaign.end_at
         THEN result'.err = "CampaignNotOver" /\ accounts' = accounts
         ELSE IF ~campaign.donation_completed
         THEN result'.err = "DonationNotCompleted" /\ accounts' = accounts
         ELSE IF campaign.claimed
         THEN result'.err = "DonationsClaimed" /\ accounts' = accounts
         ELSE /\ result'.err = "Ok"
              /\ result'.moved = campaign.total_donated
              /\ lamports' = Transfer(Escrow, Authority, campaign.total_donated)
              /\ campaign' = [campaign EXCEPT !.claimed = TRUE]
              /\ UNCHANGED <<initialized, contribution>>]_vars

\* ---- C16 ----
\* C16: create_campaign fails with StartTimeEarly if start_at < now, else with
\* EndTimeSmall if end_at <= start_at, else with GoalZero if goal = 0;
\* otherwise the campaign is Active with total_donated 0, both flags false and
\* the given goal, window and authority.
C16_CreateContract ==
    [][Called("create") =>
         \A g \in Goals, s \in StartTimes, e \in EndTimes :
            create_campaign(g, s, e) =>
               IF s < now
               THEN result'.err = "StartTimeEarly" /\ accounts' = accounts
               ELSE IF e <= s
               THEN result'.err = "EndTimeSmall" /\ accounts' = accounts
               ELSE IF g = 0
               THEN result'.err = "GoalZero" /\ accounts' = accounts
               ELSE /\ result'.err = "Ok"
                    /\ campaign' = [goal |-> g, total_donated |-> 0,
                                    donation_completed |-> FALSE,
                                    claimed |-> FALSE, start_at |-> s,
                                    end_at |-> e, status |-> Active,
                                    authority |-> Authority]
                    /\ UNCHANGED <<contribution, lamports>>]_vars

\* a creation with a valid window was rejected for its zero goal
C16_Witness ==
    /\ ~initialized
    /\ result.op = "create" /\ result.err = "GoalZero"

\* ---- C17 ----
\* C17: a claimed campaign has met its goal.
C17_ClaimedImpliesCompleted ==
    campaign.claimed => campaign.donation_completed

\* the authority has just claimed the donations
C17_Witness ==
    /\ campaign.claimed
    /\ result.op = "claim" /\ result.err = "Ok" /\ result.moved > 0

\* ---- C18 ----
\* C18: the campaign account is never overdrawn: what claim and the refunds
\* have paid out never exceeds what donate accepted, and no claim or refund
\* reaches its lamport debit with more than the account holds in donations.
C18_EscrowNeverOverdrawn ==
    /\ lamports[Escrow] >= 0
    /\ result.err # "LamportUnderflow"

\* ---- C19 ----
\* C19: once the campaign is Cancelled or Closed every donate fails and
\* changes no account.
C19_DonateOnlyWhenActive ==
    [][(initialized /\ campaign.status # Active /\ Called("donate")) =>
          (result'.err # "Ok" /\ accounts' = accounts)]_vars

\* ---- C20 ----
\* C20: while the goal is not met, goal - total_donated > 0; so every
\* successful donate accepts at least 1, total_donated strictly increases, and
\* total_donated and every contribution.amount stay at or below goal (no u64
\* overflow in either addition).
C20_AcceptedIsPositive ==
    /\ [](initialized =>
            /\ ~campaign.donation_completed =>
                   campaign.goal - campaign.total_donated > 0
            /\ campaign.total_donated <= campaign.goal
            /\ \A d \in Donors : contribution[d].amount <= campaign.goal)
    /\ [][Succeeded("donate") =>
            /\ result'.moved >= 1
            /\ campaign'.total_donated > campaign.total_donated
            /\ campaign.total_donated + result'.moved <= campaign.goal
            /\ contribution[result'.donor].amount + result'.moved <= campaign.goal]_vars

\* a donation of exactly the remaining amount was accepted in full
C20_Witness ==
    /\ result.op = "donate" /\ result.err = "Ok"
    /\ result.moved = result.requested
    /\ campaign.donation_completed
    /\ \E d \in Donors : d # result.donor /\ contribution[d].amount > 0
====
